---- MODULE Spec2Model ----
(***************************************************************************)
(* Authentication and session lifecycle of the backend: process start-up,  *)
(* password hashing, access-token (JWT) issuance and verification, the      *)
(* refresh_tokens table, the AuthUser extractor that gates the protected    *)
(* handlers, and the error-to-response mapping.                             *)
(*                                                                          *)
(* Time is in seconds since the process was started (Utc::now() and the    *)
(* database's NOW() read the same clock).  Strings that the code writes in *)
(* Chinese are given by an English rendering of the same text.  The store  *)
(* is assumed to be reachable: a query fails only for a constraint.        *)
(***************************************************************************)
EXTENDS Integers, Sequences, FiniteSets, TLC

\* ------------------------------------------------------------------ bounds
MaxUsers == 2
MaxRefresh == 2
MaxTicks == 2
MaxProjects == 1
MaxIssues == 1
MaxComments == 1

\* ------------------------------------------------------- program constants
\* Duration::minutes(15), in seconds
AccessTtl == 900
\* Duration::days(7), in seconds
RefreshTtl == 604800
\* Validation::new(Algorithm::HS256) keeps jsonwebtoken's default leeway
Leeway == 60
UsernameMin == 3
UsernameMax == 20
PasswordMin == 6
NameMin == 1
NameMax == 100
TitleMax == 255
DescriptionMin == 5
ContentMin == 1

VARIABLES pc, env, now, ticks, users, refresh_tokens, projects, issues,
          comments, seq, held, inflight, last

vars == <<pc, env, now, ticks, users, refresh_tokens, projects, issues,
          comments, seq, held, inflight, last>>

\* The tables of the database
store == <<users, refresh_tokens, projects, issues, comments>>

\* ------------------------------------------------------------ small helpers
None == {}
Some(x) == {x}
Unwrap(o) == CHOOSE x \in o : TRUE

Ok(v) == [ok |-> TRUE, val |-> v]
Err(e) == [ok |-> FALSE, err |-> e]

\* ------------------------------------------------------------- environment
\* std::env::var(name): Some(value) when the variable is set
EnvVar(name) == env[name]

ConfiguredSecret == "k3y-from-env"
FallbackSecret == "secret"
AttackerKey == "attacker-key"

\* ------------------------------------------------------------------ errors
\* str::contains, and ILIKE '%q%' on lower-case texts: q occurs in text
Contains(text, q) ==
    \E k \in 0..(Len(text) - Len(q)) : SubSeq(text, k + 1, k + Len(q)) = q

\* sqlx::Error values: the SQLSTATE of a database error and the words of its Display
UniqueViolation ==
    [code |-> "23505",
     text |-> <<"error", "returned", "from", "database:", "duplicate", "key", "value",
                "violates", "unique", "constraint">>]
ForeignKeyViolation ==
    [code |-> "23503",
     text |-> <<"error", "returned", "from", "database:", "violates", "foreign", "key",
                "constraint">>]
RowNotFound ==
    [code |-> "",
     text |-> <<"no", "rows", "returned", "by", "a", "query", "that", "expected", "to",
                "return", "at", "least", "one", "row">>]
NoSqlxError == [code |-> "", text |-> <<>>]

AppErrorAuth(msg) == [kind |-> "Auth", msg |-> msg, fields |-> {}, source |-> NoSqlxError]
AppErrorNotFound(msg) == [kind |-> "NotFound", msg |-> msg, fields |-> {}, source |-> NoSqlxError]
AppErrorForbidden(msg) == [kind |-> "Forbidden", msg |-> msg, fields |-> {}, source |-> NoSqlxError]
AppErrorBadRequest(msg) == [kind |-> "BadRequest", msg |-> msg, fields |-> {}, source |-> NoSqlxError]
AppErrorValidation(fields) ==
    [kind |-> "ValidationError", msg |-> "Validation error", fields |-> fields,
     source |-> NoSqlxError]
AppErrorDatabase(detail) ==
    [kind |-> "Database", msg |-> "Database error", fields |-> {}, source |-> detail]
AppErrorInternal ==
    [kind |-> "Internal", msg |-> "Internal server error", fields |-> {}, source |-> NoSqlxError]

ErrorBody(message, details) == [status |-> "error", message |-> message, errors |-> details]

\* An into_response that does not tell a uniqueness violation from other database errors
into_response_without_conflict(e) ==
    CASE e.kind = "Database" ->
           [status |-> 500, body |-> ErrorBody("database operation failed", None)]
      [] e.kind = "Auth" -> [status |-> 401, body |-> ErrorBody(e.msg, None)]
      [] e.kind = "NotFound" -> [status |-> 404, body |-> ErrorBody(e.msg, None)]
      [] e.kind = "Forbidden" -> [status |-> 403, body |-> ErrorBody(e.msg, None)]
      [] e.kind = "ValidationError" ->
           [status |-> 400, body |-> ErrorBody("input validation failed", Some(e.fields))]
      [] e.kind = "BadRequest" -> [status |-> 400, body |-> ErrorBody(e.msg, None)]
      [] e.kind = "Internal" -> [status |-> 500, body |-> ErrorBody("internal server error", None)]

into_response(e) ==
    CASE e.kind = "Database" ->
           IF Contains(e.source.text, <<"duplicate", "key">>)
             THEN [status |-> 409, body |-> ErrorBody("record already exists", None)]
             ELSE [status |-> 500, body |-> ErrorBody("database operation failed", None)]
      [] e.kind = "Auth" -> [status |-> 401, body |-> ErrorBody(e.msg, None)]
      [] e.kind = "NotFound" -> [status |-> 404, body |-> ErrorBody(e.msg, None)]
      [] e.kind = "Forbidden" -> [status |-> 403, body |-> ErrorBody(e.msg, None)]
      [] e.kind = "ValidationError" ->
           [status |-> 400, body |-> ErrorBody("input validation failed", Some(e.fields))]
      [] e.kind = "BadRequest" -> [status |-> 400, body |-> ErrorBody(e.msg, None)]
      [] e.kind = "Internal" -> [status |-> 500, body |-> ErrorBody("internal server error", None)]

\* A panic inside a handler aborts the request's task: no response is written
PanicErr(msg) == [kind |-> "Panic", msg |-> msg, fields |-> {}, source |-> NoSqlxError]
Panicked == [status |-> 0, body |-> ErrorBody("connection closed without a response", None)]

\* What the client receives for a handler's Result
Respond(result) ==
    IF result.ok THEN [status |-> 200, body |-> result.val]
    ELSE IF result.err.kind = "Panic" THEN Panicked
    ELSE into_response(result.err)

\* ----------------------------------------------------------- password hashing
\* Argon2id of the password under the salt: equal digests need equal inputs
Argon2(password, salt) == <<"argon2id", salt, password>>

\* The encoded hash carries algorithm, salt and digest
hash_password(password, salt) ==
    Ok([phc |-> TRUE, salt |-> salt, digest |-> Argon2(password, salt)])

verify_password_any(password, password_hash) == password_hash.phc

verify_password(password, password_hash) ==
    IF ~password_hash.phc THEN FALSE
    ELSE Argon2(password, password_hash.salt) = password_hash.digest

\* ------------------------------------------------------------ access tokens
Claims(sub, username, exp) == [sub |-> sub, username |-> username, exp |-> exp]

HmacSha256(key, claims) == <<key, claims>>

\* jsonwebtoken::encode with Header::default() (HS256)
encode(claims, key) ==
    [wf |-> TRUE, alg |-> "HS256", claims |-> claims, sig |-> HmacSha256(key, claims)]

decode_without_exp(token, key, t) ==
    IF ~token.wf THEN Err("InvalidToken")
    ELSE IF token.alg # "HS256" THEN Err("InvalidAlgorithm")
    ELSE IF token.sig # HmacSha256(key, token.claims) THEN Err("InvalidSignature")
    ELSE Ok(token.claims)

\* jsonwebtoken::decode under Validation::new(Algorithm::HS256) at time t
decode(token, key, t) ==
    IF ~token.wf THEN Err("InvalidToken")
    ELSE IF token.alg # "HS256" THEN Err("InvalidAlgorithm")
    ELSE IF token.sig # HmacSha256(key, token.claims) THEN Err("InvalidSignature")
    ELSE IF token.claims.exp < t - Leeway THEN Err("ExpiredSignature")
    ELSE Ok(token.claims)

\* create_jwt that signs the claims of user 0
create_jwt_anonymous(user_id, username, t) ==
    LET claims == Claims(0, username, t + AccessTtl)
        secret == EnvVar("JWT_SECRET")
    IN  IF secret = None THEN Err(PanicErr("JWT_SECRET must be set"))
        ELSE Ok(encode(claims, Unwrap(secret)))

create_jwt(user_id, username, t) ==
    LET expiration == t + AccessTtl
        claims == Claims(user_id, username, expiration)
        secret == EnvVar("JWT_SECRET")
    IN  IF secret = None THEN Err(PanicErr("JWT_SECRET must be set"))
        ELSE Ok(encode(claims, Unwrap(secret)))

\* Uuid::new_v4(): a value no earlier call returned
generate_refresh_token == Cardinality(refresh_tokens) + 1

\* ------------------------------------------------------------------ the gate
NoHeader == [scheme |-> "none", token |-> [wf |-> FALSE, alg |-> "", claims |-> Claims(0, "", 0), sig |-> <<>>]]
Bearer(token) == [scheme |-> "Bearer", token |-> token]

\* The key the extractor verifies under
GateSecret ==
    IF EnvVar("JWT_SECRET") # None THEN Unwrap(EnvVar("JWT_SECRET")) ELSE FallbackSecret

from_request_parts_internal(header, t) ==
    IF header.scheme # "Bearer" THEN Err(AppErrorAuth("token missing or malformed"))
    ELSE LET token_data == decode(header.token, GateSecret, t)
         IN  IF ~token_data.ok THEN Err(AppErrorInternal)
             ELSE Ok([id |-> token_data.val.sub, username |-> token_data.val.username])

from_request_parts(header, t) ==
    IF header.scheme # "Bearer" THEN Err(AppErrorAuth("token missing or malformed"))
    ELSE LET token_data == decode(header.token, GateSecret, t)
         IN  IF ~token_data.ok THEN Err(AppErrorAuth("token expired or invalid"))
             ELSE Ok([id |-> token_data.val.sub, username |-> token_data.val.username])

\* ---------------------------------------------------------------- validation
LengthOk(s, lo, hi) == Len(s) >= lo /\ Len(s) <= hi

\* Every violated field is reported, each with its message
validate_RegisterSchema(v) ==
    (IF LengthOk(v.username, UsernameMin, UsernameMax) THEN {}
     ELSE {<<"username", "username must be 3-20 characters">>})
    \cup (IF Len(v.password) >= PasswordMin THEN {}
          ELSE {<<"password", "password needs at least 6 characters">>})

validate_LoginSchema(v) == {}

validate_CreateProjectSchema(v) ==
    IF LengthOk(v.name, NameMin, NameMax) THEN {}
    ELSE {<<"name", "project name must not be empty">>}

validate_UpdateProjectSchema(v) == {}

\* title is required; description is optional and checked when present
validate_CreateIssueSchema(v) ==
    (IF LengthOk(v.title, NameMin, TitleMax) THEN {}
     ELSE {<<"title", "title must not be empty">>})
    \cup (IF \A x \in v.description : Len(x) >= DescriptionMin THEN {}
          ELSE {<<"description", "description needs at least 5 characters">>})

\* title is optional and checked when present
validate_UpdateIssueSchema(v) ==
    IF \A x \in v.title : LengthOk(x, NameMin, TitleMax) THEN {}
    ELSE {<<"title", "title must not be empty">>}

validate_CreateCommentSchema(v) ==
    IF Len(v.content) >= ContentMin THEN {}
    ELSE {<<"content", "comment must not be empty">>}

\* ValidatedJson<T>: the Json extractor, then T::validate, whose field errors are
\* `violations`
ValidatedJson(body, violations) ==
    IF ~body.json_ok THEN Err(AppErrorBadRequest("failed to parse the request body as JSON"))
    ELSE IF violations # {} THEN Err(AppErrorValidation(violations))
    ELSE Ok(body.value)

\* axum's Json<T>: its rejection is its own plain-text response, not an AppError
JsonRejection == [status |-> 400, body |-> [text |-> "Failed to parse the request body as JSON"]]

\* ------------------------------------------------------------------- inputs
Usernames == {"alice", "bob", "al"}
Passwords == {"secret1", "wrong"}
\* Two clients send refresh requests at the same time
Clients == {"c1", "c2"}

JsonBody(value) == [json_ok |-> TRUE, value |-> value]
BadJson(value) == [json_ok |-> FALSE, value |-> value]
NoBody == BadJson([empty |-> TRUE])

CredentialBodies ==
    {JsonBody([username |-> u, password |-> p]) : u \in Usernames, p \in Passwords}
    \cup {BadJson([username |-> "", password |-> ""])}

\* Refresh tokens a client may send: every issued one and one never issued
RefreshBodies ==
    {JsonBody([refresh_token |-> k]) : k \in 1..(MaxRefresh + 1)}
    \cup {BadJson([refresh_token |-> 0])}

Request(header, body) == [header |-> header, body |-> body]

NoResponse == [status |-> 0, body |-> [empty |-> TRUE]]

\* The exchange being answered: operation, request, the identity the gate produced
\* for it (if it ran and passed) and the response the handler returned
Exchange(op, req, user, resp) == [op |-> op, req |-> req, user |-> user, resp |-> resp]

NoRequest == Exchange("none", Request(NoHeader, NoBody), None, NoResponse)

\* A refresh request of a client: where refresh_handler stands in it
IdleClient == [pc |-> "idle", token |-> 0, row |-> None, resp |-> NoResponse]

\* -------------------------------------------------------------------- state
Init ==
    /\ pc = "start"
    /\ env \in {[JWT_SECRET |-> s, DATABASE_URL |-> d] :
                  s \in {None, Some(ConfiguredSecret)},
                  d \in {None, Some("postgres://db")}}
    /\ now = 0
    /\ ticks = 0
    /\ users = {}
    /\ refresh_tokens = {}
    /\ projects = {}
    /\ issues = {}
    /\ comments = {}
    /\ seq = [projects |-> 0, issues |-> 0, comments |-> 0]
    /\ held = {}
    /\ inflight = [c \in Clients |-> IdleClient]
    /\ last = NoRequest

\* main: the only variable it requires is DATABASE_URL; then it serves
main ==
    /\ pc = "start"
    /\ pc' = IF EnvVar("DATABASE_URL") = None THEN "panicked" ELSE "serving"
    /\ UNCHANGED <<env, now, ticks, store, seq, held, inflight, last>>

\* The clock advances by d seconds between two requests
Tick(d) ==
    /\ pc = "serving"
    /\ last = NoRequest
    /\ ticks < MaxTicks
    /\ now' = now + d
    /\ ticks' = ticks + 1
    /\ UNCHANGED <<pc, env, store, seq, held, inflight, last>>

\* The server takes the next request once the previous response is on its way
Ready == pc = "serving" /\ last = NoRequest

\* The response reaches the client, which may keep an access token in it for its
\* later requests
deliver(keep) ==
    /\ last # NoRequest
    /\ last' = NoRequest
    /\ IF keep /\ last.op \in {"login", "refresh"} /\ last.resp.status = 200
         THEN held' = Some(last.resp.body.token)
         ELSE held' = held
    /\ UNCHANGED <<pc, env, now, ticks, store, seq, inflight>>

\* ----------------------------------------------------------------- register
\* users.username is unique
username_taken(username) == \E u \in users : u.username = username

register_outcome(body) ==
    LET payload == ValidatedJson(body, validate_RegisterSchema(body.value))
    IN  IF ~payload.ok THEN [result |-> payload, users |-> users]
        ELSE LET hashed_password == hash_password(payload.val.password, Cardinality(users) + 1)
             IN  IF ~hashed_password.ok
                   THEN [result |-> Err(AppErrorInternal), users |-> users]
                 ELSE IF username_taken(payload.val.username)
                   THEN [result |-> Err(AppErrorDatabase(UniqueViolation)), users |-> users]
                 ELSE [result |-> Ok([message |-> "User registered successfully"]),
                       users |-> users \cup {[id |-> Cardinality(users) + 1,
                                              username |-> payload.val.username,
                                              password_hash |-> hashed_password.val]}]

register_handler(body) ==
    /\ Ready
    /\ LET out == register_outcome(body)
       IN  /\ Cardinality(out.users) <= MaxUsers
           /\ users' = out.users
           /\ last' = Exchange("register", Request(NoHeader, body), None, Respond(out.result))
    /\ UNCHANGED <<pc, env, now, ticks, refresh_tokens, projects, issues, comments,
                   seq, held, inflight>>

\* -------------------------------------------------------------------- login
\* SELECT * FROM users WHERE username = $1, fetch_optional
find_user(username) ==
    LET found == {u \in users : u.username = username}
    IN  IF found = {} THEN None ELSE Some(CHOOSE u \in found : TRUE)

\* login_handler that ends the other sessions of the user
login_outcome_single_session(body, t) ==
    LET payload == ValidatedJson(body, validate_LoginSchema(body.value))
    IN  IF ~payload.ok THEN [result |-> payload, refresh_tokens |-> refresh_tokens]
        ELSE LET found == find_user(payload.val.username)
             IN  IF found = None
                   THEN [result |-> Err(AppErrorAuth("wrong username or password")),
                         refresh_tokens |-> refresh_tokens]
                 ELSE LET user == Unwrap(found)
                          token == create_jwt(user.id, user.username, t)
                          refresh_token_str == generate_refresh_token
                          expires_at == t + RefreshTtl
                      IN  IF ~verify_password(payload.val.password, user.password_hash)
                            THEN [result |-> Err(AppErrorAuth("wrong username or password")),
                                  refresh_tokens |-> refresh_tokens]
                          ELSE IF ~token.ok
                            THEN [result |-> token, refresh_tokens |-> refresh_tokens]
                          ELSE [result |-> Ok([token |-> token.val,
                                               refresh_token |-> Some(refresh_token_str),
                                               username |-> user.username]),
                                refresh_tokens |->
                                    {r \in refresh_tokens : r.user_id # user.id} \cup
                                    {[user_id |-> user.id, token |-> refresh_token_str,
                                      expires_at |-> expires_at]}]

login_outcome(body, t) ==
    LET payload == ValidatedJson(body, validate_LoginSchema(body.value))
    IN  IF ~payload.ok THEN [result |-> payload, refresh_tokens |-> refresh_tokens]
        ELSE LET found == find_user(payload.val.username)
             IN  IF found = None
                   THEN [result |-> Err(AppErrorAuth("wrong username or password")),
                         refresh_tokens |-> refresh_tokens]
                 ELSE LET user == Unwrap(found)
                          token == create_jwt(user.id, user.username, t)
                          refresh_token_str == generate_refresh_token
                          expires_at == t + RefreshTtl
                      IN  IF ~verify_password(payload.val.password, user.password_hash)
                            THEN [result |-> Err(AppErrorAuth("wrong username or password")),
                                  refresh_tokens |-> refresh_tokens]
                          ELSE IF ~token.ok
                            THEN [result |-> token, refresh_tokens |-> refresh_tokens]
                          ELSE [result |-> Ok([token |-> token.val,
                                               refresh_token |-> Some(refresh_token_str),
                                               username |-> user.username]),
                                refresh_tokens |-> refresh_tokens \cup
                                    {[user_id |-> user.id, token |-> refresh_token_str,
                                      expires_at |-> expires_at]}]

login_handler(body) ==
    /\ Ready
    /\ LET out == login_outcome(body, now)
       IN  /\ Cardinality(out.refresh_tokens) <= MaxRefresh
           /\ refresh_tokens' = out.refresh_tokens
           /\ last' = Exchange("login", Request(NoHeader, body), None, Respond(out.result))
    /\ UNCHANGED <<pc, env, now, ticks, users, projects, issues, comments, seq, held,
                   inflight>>

\* ------------------------------------------------------------------ refresh
\* SELECT r.user_id, u.username FROM refresh_tokens r JOIN users u ON r.user_id = u.id
\* WHERE r.token = $1 AND r.expires_at > NOW(), fetch_optional
find_refresh_token_unexpiring(token, t) ==
    LET rows == {[user_id |-> r.user_id, username |-> u.username] :
                    <<r, u>> \in {<<r, u>> \in refresh_tokens \X users :
                                    /\ r.user_id = u.id
                                    /\ r.token = token
                                    /\ r.expires_at >= t}}
    IN  IF rows = {} THEN None ELSE Some(CHOOSE row \in rows : TRUE)

find_refresh_token(token, t) ==
    LET rows == {[user_id |-> r.user_id, username |-> u.username] :
                    <<r, u>> \in {<<r, u>> \in refresh_tokens \X users :
                                    /\ r.user_id = u.id
                                    /\ r.token = token
                                    /\ r.expires_at > t}}
    IN  IF rows = {} THEN None ELSE Some(CHOOSE row \in rows : TRUE)

\* What refresh_handler answers once the query returned `found`
refresh_result(found, refresh_token, t) ==
    IF found = None THEN Err(AppErrorAuth("login expired, please log in again"))
    ELSE LET row == Unwrap(found)
             new_access_token == create_jwt(row.user_id, row.username, t)
         IN  IF ~new_access_token.ok THEN new_access_token
             ELSE Ok([token |-> new_access_token.val,
                      refresh_token |-> Some(refresh_token),
                      username |-> row.username])

refresh_handler(body) ==
    /\ Ready
    /\ LET result == refresh_result(find_refresh_token(body.value.refresh_token, now),
                                     body.value.refresh_token, now)
           resp == IF ~body.json_ok THEN JsonRejection ELSE Respond(result)
       IN  last' = Exchange("refresh", Request(NoHeader, body), None, resp)
    /\ UNCHANGED <<pc, env, now, ticks, store, seq, held, inflight>>

\* ------------------------------------------- refresh, one await at a time
\* refresh_handler up to the answer of its query
refresh_query(c, body) ==
    /\ pc = "serving"
    /\ inflight[c].pc = "idle"
    /\ inflight' = [inflight EXCEPT ![c] =
          IF ~body.json_ok
            THEN [pc |-> "done", token |-> body.value.refresh_token, row |-> None,
                  resp |-> JsonRejection]
            ELSE [pc |-> "queried", token |-> body.value.refresh_token,
                  row |-> find_refresh_token(body.value.refresh_token, now),
                  resp |-> NoResponse]]
    /\ UNCHANGED <<pc, env, now, ticks, store, seq, held, last>>

\* refresh_handler from the answer of its query to its response, which rotates
\* the token out of the table
refresh_respond_rotating(c) ==
    /\ pc = "serving"
    /\ inflight[c].pc = "queried"
    /\ inflight' = [inflight EXCEPT ![c] =
          [pc |-> "done", token |-> inflight[c].token, row |-> inflight[c].row,
           resp |-> Respond(refresh_result(inflight[c].row, inflight[c].token, now))]]
    /\ refresh_tokens' = IF inflight[c].row = None THEN refresh_tokens
                         ELSE {r \in refresh_tokens : r.token # inflight[c].token}
    /\ UNCHANGED <<pc, env, now, ticks, users, projects, issues, comments, seq, held, last>>

\* refresh_handler from the answer of its query to its response
refresh_respond(c) ==
    /\ pc = "serving"
    /\ inflight[c].pc = "queried"
    /\ inflight' = [inflight EXCEPT ![c] =
          [pc |-> "done", token |-> inflight[c].token, row |-> inflight[c].row,
           resp |-> Respond(refresh_result(inflight[c].row, inflight[c].token, now))]]
    /\ UNCHANGED <<pc, env, now, ticks, store, seq, held, last>>

\* The client has read the response and may send another request
refresh_collect(c) ==
    /\ inflight[c].pc = "done"
    /\ inflight' = [inflight EXCEPT ![c] = IdleClient]
    /\ UNCHANGED <<pc, env, now, ticks, store, seq, held, last>>

\* ------------------------------------------------------- protected handlers
Garbage == NoHeader.token

\* Tokens signed by someone who does not know the configured secret
Forged(t) ==
    {encode(Claims(sub, "mallory", t + AccessTtl), k) :
        sub \in 1..MaxUsers, k \in {FallbackSecret, AttackerKey}}

\* A held token whose subject was rewritten, its signature kept
Tampered == {[h EXCEPT !.claims.sub = h.claims.sub + 1] : h \in held}

Headers ==
    {NoHeader, [scheme |-> "Basic", token |-> Garbage]}
    \cup {Bearer(tok) : tok \in held \cup Tampered \cup Forged(now) \cup {Garbage}}

Identity(user) == IF user.ok THEN Some(user.val) ELSE None

get_projects_handler(header) ==
    /\ Ready
    /\ LET user == from_request_parts(header, now)
           result == IF ~user.ok THEN user
                     ELSE Ok({p \in projects : p.user_id = user.val.id})
       IN  last' = Exchange("get_projects", Request(header, NoBody), Identity(user),
                            Respond(result))
    /\ UNCHANGED <<pc, env, now, ticks, store, seq, held, inflight>>

\* Texts are sequences of characters
Plan == <<"p", "l", "a", "n">>
Done == <<"d", "o", "n", "e">>
Empty == <<>>

\* COALESCE($new, old) for an optional new value
Coalesce(new, old) == IF new = None THEN old ELSE Unwrap(new)

\* What the schema does with the rows that reference a deleted row: it deletes
\* them too, refuses the delete, or (no foreign key) leaves them
OnDelete == {"cascade", "restrict", "none"}

\* A create_project that trusts the subject a bearer token names without verifying
\* the token
create_project_handler_unverified(header, body, fk) ==
    /\ Ready
    /\ seq.projects < MaxProjects
    /\ LET user == from_request_parts(header, now)
           payload == ValidatedJson(body, validate_CreateProjectSchema(body.value))
           project == [id |-> seq.projects + 1, user_id |-> header.token.claims.sub,
                       name |-> payload.val.name]
           inserted == header.token.wf /\ payload.ok
                       /\ (fk => \E u \in users : u.id = header.token.claims.sub)
           result == IF ~header.token.wf THEN user
                     ELSE IF ~payload.ok THEN payload
                     ELSE IF ~inserted THEN Err(AppErrorDatabase(ForeignKeyViolation))
                     ELSE Ok(project)
       IN  /\ projects' = IF inserted THEN projects \cup {project} ELSE projects
           /\ seq' = IF inserted THEN [seq EXCEPT !.projects = @ + 1] ELSE seq
           /\ last' = Exchange("create_project", Request(header, body),
                               Identity(user), Respond(result))
    /\ UNCHANGED <<pc, env, now, ticks, users, refresh_tokens, issues, comments, held,
                   inflight>>

create_project_handler(header, body, fk) ==
    /\ Ready
    /\ seq.projects < MaxProjects
    /\ LET user == from_request_parts(header, now)
           payload == ValidatedJson(body, validate_CreateProjectSchema(body.value))
           project == [id |-> seq.projects + 1, user_id |-> user.val.id,
                       name |-> payload.val.name]
           inserted == user.ok /\ payload.ok
                       /\ (fk => \E u \in users : u.id = user.val.id)
           result == IF ~user.ok THEN user
                     ELSE IF ~payload.ok THEN payload
                     ELSE IF ~inserted THEN Err(AppErrorDatabase(ForeignKeyViolation))
                     ELSE Ok(project)
       IN  /\ projects' = IF inserted THEN projects \cup {project} ELSE projects
           /\ seq' = IF inserted THEN [seq EXCEPT !.projects = @ + 1] ELSE seq
           /\ last' = Exchange("create_project", Request(header, body),
                               Identity(user), Respond(result))
    /\ UNCHANGED <<pc, env, now, ticks, users, refresh_tokens, issues, comments, held,
                   inflight>>

update_project_handler(header, id, body) ==
    /\ Ready
    /\ LET user == from_request_parts(header, now)
           payload == ValidatedJson(body, validate_UpdateProjectSchema(body.value))
           hit == IF user.ok /\ payload.ok
                    THEN {p \in projects : p.id = id /\ p.user_id = user.val.id} ELSE {}
           updated == {[p EXCEPT !.name = Coalesce(payload.val.name, @)] : p \in hit}
           result == IF ~user.ok THEN user
                     ELSE IF ~payload.ok THEN payload
                     ELSE IF hit = {} THEN Err(AppErrorNotFound("project not found"))
                     ELSE Ok(CHOOSE p \in updated : TRUE)
       IN  /\ projects' = (projects \ hit) \cup updated
           /\ last' = Exchange("update_project", Request(header, body),
                               Identity(user), Respond(result))
    /\ UNCHANGED <<pc, env, now, ticks, users, refresh_tokens, issues, comments, seq,
                   held, inflight>>

\* The comments of the issues `gone`
CommentsOf(gone) == {c \in comments : \E i \in gone : c.issue_id = i.id}

delete_project_handler(header, id, on_delete) ==
    /\ Ready
    /\ LET user == from_request_parts(header, now)
           hit == IF user.ok
                    THEN {p \in projects : p.id = id /\ p.user_id = user.val.id} ELSE {}
           dependent == {i \in issues : \E p \in hit : i.project_id = p.id}
           refused == on_delete = "restrict" /\ dependent # {}
           result == IF ~user.ok THEN user
                     ELSE IF refused THEN Err(AppErrorDatabase(ForeignKeyViolation))
                     ELSE IF hit = {} THEN Err(AppErrorNotFound("project missing or not yours"))
                     ELSE Ok([no_content |-> TRUE])
       IN  /\ projects' = IF refused THEN projects ELSE projects \ hit
           /\ issues' = IF on_delete = "cascade" THEN issues \ dependent ELSE issues
           /\ comments' = IF on_delete = "cascade" THEN comments \ CommentsOf(dependent)
                          ELSE comments
           /\ last' = Exchange("delete_project", Request(header, NoBody),
                               Identity(user),
                               IF result.ok THEN [status |-> 204, body |-> result.val]
                               ELSE Respond(result))
    /\ UNCHANGED <<pc, env, now, ticks, users, refresh_tokens, seq, held, inflight>>

get_all_my_issues_handler(header) ==
    /\ Ready
    /\ LET user == from_request_parts(header, now)
           result == IF ~user.ok THEN user
                     ELSE Ok({i \in issues : i.user_id = user.val.id})
       IN  last' = Exchange("get_all_my_issues", Request(header, NoBody), Identity(user),
                            Respond(result))
    /\ UNCHANGED <<pc, env, now, ticks, store, seq, held, inflight>>

\* str::trim on a text of letters and spaces
RECURSIVE TrimStart(_)
TrimStart(q) == IF q # <<>> /\ Head(q) = " " THEN TrimStart(Tail(q)) ELSE q

RECURSIVE TrimEnd(_)
TrimEnd(q) ==
    IF q # <<>> /\ q[Len(q)] = " " THEN TrimEnd(SubSeq(q, 1, Len(q) - 1)) ELSE q

Trim(q) == TrimEnd(TrimStart(q))

get_project_issues_handler(header, project_id, query) ==
    /\ Ready
    /\ LET user == from_request_parts(header, now)
           project_exists == \E p \in projects : p.id = project_id /\ p.user_id = user.val.id
           result == IF ~user.ok THEN user
                     ELSE IF ~project_exists THEN Err(AppErrorForbidden("no access to this project"))
                     ELSE Ok({i \in issues :
                                /\ i.project_id = project_id
                                /\ \A q \in query.q : Contains(i.title, q)})
       IN  last' = Exchange("get_project_issues", Request(header, NoBody), Identity(user),
                            Respond(result))
    /\ UNCHANGED <<pc, env, now, ticks, store, seq, held, inflight>>

unified_search_handler(header, query) ==
    /\ Ready
    /\ LET user == from_request_parts(header, now)
           q == IF query.q = None THEN <<>> ELSE Unwrap(query.q)
           result == IF ~user.ok THEN user
                     ELSE IF Trim(q) = <<>> THEN Ok({})
                     ELSE Ok({[type |-> "project", id |-> p.id, title |-> p.name] :
                                 p \in {x \in projects : x.user_id = user.val.id
                                                           /\ Contains(x.name, q)}}
                             \cup
                             {[type |-> "issue", id |-> i.id, title |-> i.title] :
                                 i \in {x \in issues : x.user_id = user.val.id
                                                         /\ Contains(x.title, q)}})
       IN  last' = Exchange("unified_search", Request(header, NoBody), Identity(user),
                            Respond(result))
    /\ UNCHANGED <<pc, env, now, ticks, store, seq, held, inflight>>

create_issue_handler(header, body) ==
    /\ Ready
    /\ seq.issues < MaxIssues
    /\ LET user == from_request_parts(header, now)
           payload == ValidatedJson(body, validate_CreateIssueSchema(body.value))
           project_owned == \E p \in projects :
                               p.id = payload.val.project_id /\ p.user_id = user.val.id
           issue == [id |-> seq.issues + 1, project_id |-> payload.val.project_id,
                     user_id |-> user.val.id, title |-> payload.val.title]
           inserted == user.ok /\ payload.ok /\ project_owned
           result == IF ~user.ok THEN user
                     ELSE IF ~payload.ok THEN payload
                     ELSE IF ~project_owned THEN Err(AppErrorBadRequest("target project does not exist"))
                     ELSE Ok(issue)
       IN  /\ issues' = IF inserted THEN issues \cup {issue} ELSE issues
           /\ seq' = IF inserted THEN [seq EXCEPT !.issues = @ + 1] ELSE seq
           /\ last' = Exchange("create_issue", Request(header, body), Identity(user),
                               Respond(result))
    /\ UNCHANGED <<pc, env, now, ticks, users, refresh_tokens, projects, comments, held,
                   inflight>>

update_issue_handler(header, id, body) ==
    /\ Ready
    /\ LET user == from_request_parts(header, now)
           payload == ValidatedJson(body, validate_UpdateIssueSchema(body.value))
           hit == IF user.ok /\ payload.ok
                    THEN {i \in issues : i.id = id /\ i.user_id = user.val.id} ELSE {}
           updated == {[i EXCEPT !.title = Coalesce(payload.val.title, @)] : i \in hit}
           result == IF ~user.ok THEN user
                     ELSE IF ~payload.ok THEN payload
                     ELSE IF hit = {} THEN Err(AppErrorNotFound("issue not found"))
                     ELSE Ok(CHOOSE i \in updated : TRUE)
       IN  /\ issues' = (issues \ hit) \cup updated
           /\ last' = Exchange("update_issue", Request(header, body), Identity(user),
                               Respond(result))
    /\ UNCHANGED <<pc, env, now, ticks, users, refresh_tokens, projects, comments, seq,
                   held, inflight>>

delete_issue_handler(header, id, on_delete) ==
    /\ Ready
    /\ LET user == from_request_parts(header, now)
           hit == IF user.ok
                    THEN {i \in issues : i.id = id /\ i.user_id = user.val.id} ELSE {}
           refused == on_delete = "restrict" /\ CommentsOf(hit) # {}
           result == IF ~user.ok THEN user
                     ELSE IF refused THEN Err(AppErrorDatabase(ForeignKeyViolation))
                     ELSE IF hit = {} THEN Err(AppErrorNotFound("issue not found"))
                     ELSE Ok([no_content |-> TRUE])
       IN  /\ issues' = IF refused THEN issues ELSE issues \ hit
           /\ comments' = IF on_delete = "cascade" THEN comments \ CommentsOf(hit)
                          ELSE comments
           /\ last' = Exchange("delete_issue", Request(header, NoBody), Identity(user),
                               IF result.ok THEN [status |-> 204, body |-> result.val]
                               ELSE Respond(result))
    /\ UNCHANGED <<pc, env, now, ticks, users, refresh_tokens, projects, seq, held,
                   inflight>>

get_issue_comments_handler(header, issue_id) ==
    /\ Ready
    /\ LET user == from_request_parts(header, now)
           result == IF ~user.ok THEN user
                     ELSE Ok({[id |-> c.id, issue_id |-> c.issue_id, user_id |-> c.user_id,
                               username |-> u.username, content |-> c.content] :
                                <<c, u>> \in {<<c, u>> \in comments \X users :
                                    /\ c.user_id = u.id
                                    /\ c.issue_id = issue_id
                                    /\ \E i \in issues : \E p \in projects :
                                           /\ c.issue_id = i.id
                                           /\ i.project_id = p.id
                                           /\ p.user_id = user.val.id}})
       IN  last' = Exchange("get_issue_comments", Request(header, NoBody), Identity(user),
                            Respond(result))
    /\ UNCHANGED <<pc, env, now, ticks, store, seq, held, inflight>>

\* The INSERT runs whether or not the SELECT over it then finds the author
create_comment_handler(header, issue_id, body, fk) ==
    /\ Ready
    /\ seq.comments < MaxComments
    /\ LET user == from_request_parts(header, now)
           payload == ValidatedJson(body, validate_CreateCommentSchema(body.value))
           author == {u \in users : u.id = user.val.id}
           comment == [id |-> seq.comments + 1, issue_id |-> issue_id,
                       user_id |-> user.val.id, content |-> payload.val.content]
           referenced == author # {} /\ \E i \in issues : i.id = issue_id
           inserted == user.ok /\ payload.ok /\ (fk => referenced)
           result == IF ~user.ok THEN user
                     ELSE IF ~payload.ok THEN payload
                     ELSE IF ~inserted THEN Err(AppErrorDatabase(ForeignKeyViolation))
                     ELSE IF author = {} THEN Err(AppErrorDatabase(RowNotFound))
                     ELSE Ok([id |-> comment.id, issue_id |-> issue_id,
                              user_id |-> comment.user_id,
                              username |-> (CHOOSE u \in author : TRUE).username,
                              content |-> comment.content])
       IN  /\ comments' = IF inserted THEN comments \cup {comment} ELSE comments
           /\ seq' = IF inserted THEN [seq EXCEPT !.comments = @ + 1] ELSE seq
           /\ last' = Exchange("create_comment", Request(header, body), Identity(user),
                               Respond(result))
    /\ UNCHANGED <<pc, env, now, ticks, users, refresh_tokens, projects, issues, held,
                   inflight>>

\* ------------------------------------------------------------ specifications
Deltas == {1, AccessTtl + Leeway, RefreshTtl - 1}

Next ==
    \/ main
    \/ \E d \in Deltas : Tick(d)
    \/ \E body \in CredentialBodies : register_handler(body)
    \/ \E body \in CredentialBodies : login_handler(body)
    \/ \E body \in RefreshBodies : refresh_handler(body)
    \/ \E header \in Headers : get_projects_handler(header)
    \/ \E keep \in BOOLEAN : deliver(keep)

Spec == Init /\ [][Next]_vars

\* Refresh requests of several clients, interleaved with each other, with logins
\* and with the clock
RefreshDeltas == {RefreshTtl}

SessionBodies == {JsonBody([username |-> u, password |-> "secret1"]) : u \in {"alice", "bob"}}

\* Every refresh token issued so far and the one the next login will issue
IssuedOrNextBodies ==
    {JsonBody([refresh_token |-> k]) : k \in 1..(Cardinality(refresh_tokens) + 1)}

NextRefresh ==
    \/ main
    \/ \E d \in RefreshDeltas : Tick(d)
    \/ \E body \in SessionBodies : register_handler(body)
    \/ \E body \in SessionBodies : login_handler(body)
    \/ deliver(FALSE)
    \/ \E c \in Clients : \E body \in IssuedOrNextBodies : refresh_query(c, body)
    \/ \E c \in Clients : refresh_respond(c)
    \/ \E c \in Clients : refresh_collect(c)

SpecRefresh == Init /\ [][NextRefresh]_vars

\* The protected routes, called with and without a valid bearer token
OwnerBodies == {JsonBody([username |-> "alice", password |-> "secret1"])}

ProtectedHeaders == {NoHeader} \cup {Bearer(tok) : tok \in held \cup Tampered}

ProjectBodies ==
    {JsonBody([name |-> n]) : n \in {Plan, Empty}} \cup {BadJson([name |-> Empty])}

ProjectUpdates ==
    {JsonBody([name |-> n]) : n \in {None, Some(Done)}} \cup {BadJson([name |-> None])}

IssueBodies ==
    {JsonBody([project_id |-> p, title |-> Plan, description |-> None]) : p \in 1..MaxProjects}
    \cup {JsonBody([project_id |-> 1, title |-> Empty, description |-> Some(Plan)]),
          BadJson([project_id |-> 0, title |-> Empty, description |-> None])}

IssueUpdates ==
    {JsonBody([title |-> t]) : t \in {None, Some(Done), Some(Empty)}}
    \cup {BadJson([title |-> None])}

CommentBodies ==
    {JsonBody([content |-> c]) : c \in {Plan, Empty}} \cup {BadJson([content |-> Empty])}

Queries == {[q |-> q] : q \in {None, Some(<<" ">>), Some(<<"a", "n">>)}}

NextProtected ==
    \/ main
    \/ \E body \in OwnerBodies : register_handler(body)
    \/ \E body \in OwnerBodies : login_handler(body)
    \/ deliver(TRUE)
    \/ \E header \in ProtectedHeaders : get_projects_handler(header)
    \/ \E header \in ProtectedHeaders : \E body \in ProjectBodies : \E fk \in BOOLEAN :
          create_project_handler(header, body, fk)
    \/ \E header \in ProtectedHeaders : \E id \in 1..MaxProjects : \E body \in ProjectUpdates :
          update_project_handler(header, id, body)
    \/ \E header \in ProtectedHeaders : \E id \in 1..MaxProjects : \E on_delete \in OnDelete :
          delete_project_handler(header, id, on_delete)
    \/ \E header \in ProtectedHeaders : get_all_my_issues_handler(header)
    \/ \E header \in ProtectedHeaders : \E id \in 1..MaxProjects : \E query \in Queries :
          get_project_issues_handler(header, id, query)
    \/ \E header \in ProtectedHeaders : \E query \in Queries : unified_search_handler(header, query)
    \/ \E header \in ProtectedHeaders : \E body \in IssueBodies : create_issue_handler(header, body)
    \/ \E header \in ProtectedHeaders : \E id \in 1..MaxIssues : \E body \in IssueUpdates :
          update_issue_handler(header, id, body)
    \/ \E header \in ProtectedHeaders : \E id \in 1..MaxIssues : \E on_delete \in OnDelete :
          delete_issue_handler(header, id, on_delete)
    \/ \E header \in ProtectedHeaders : \E id \in 1..MaxIssues : get_issue_comments_handler(header, id)
    \/ \E header \in ProtectedHeaders : \E id \in 1..MaxIssues : \E body \in CommentBodies :
          \E fk \in BOOLEAN : create_comment_handler(header, id, body, fk)

SpecProtected == Init /\ [][NextProtected]_vars

\* The protected routes, called by two users, each with the token of their own login
HeldHeaders == {Bearer(tok) : tok \in held}

NextOwnership ==
    \/ main
    \/ \E body \in SessionBodies : register_handler(body)
    \/ \E body \in SessionBodies : login_handler(body)
    \/ deliver(TRUE)
    \/ \E header \in HeldHeaders : get_projects_handler(header)
    \/ \E header \in HeldHeaders : \E body \in ProjectBodies : \E fk \in BOOLEAN :
          create_project_handler(header, body, fk)
    \/ \E header \in HeldHeaders : \E id \in 1..MaxProjects : \E body \in ProjectUpdates :
          update_project_handler(header, id, body)
    \/ \E header \in HeldHeaders : \E id \in 1..MaxProjects : \E on_delete \in OnDelete :
          delete_project_handler(header, id, on_delete)
    \/ \E header \in HeldHeaders : get_all_my_issues_handler(header)
    \/ \E header \in HeldHeaders : \E id \in 1..MaxProjects : \E query \in Queries :
          get_project_issues_handler(header, id, query)
    \/ \E header \in HeldHeaders : \E query \in Queries : unified_search_handler(header, query)
    \/ \E header \in HeldHeaders : \E body \in IssueBodies : create_issue_handler(header, body)
    \/ \E header \in HeldHeaders : \E id \in 1..MaxIssues : \E body \in IssueUpdates :
          update_issue_handler(header, id, body)
    \/ \E header \in HeldHeaders : \E id \in 1..MaxIssues : \E on_delete \in OnDelete :
          delete_issue_handler(header, id, on_delete)
    \/ \E header \in HeldHeaders : \E id \in 1..MaxIssues : get_issue_comments_handler(header, id)
    \/ \E header \in HeldHeaders : \E id \in 1..MaxIssues : \E body \in CommentBodies :
          \E fk \in BOOLEAN : create_comment_handler(header, id, body, fk)

SpecOwnership == Init /\ [][NextOwnership]_vars

\* =================================================================== claims
ProtectedOps ==
    {"get_projects", "create_project", "update_project", "delete_project",
     "get_all_my_issues", "get_project_issues", "unified_search", "create_issue",
     "update_issue", "delete_issue", "get_issue_comments", "create_comment"}

\* The last exchange was a protected request that carried a bearer token
GateVerified == last.op \in ProtectedOps /\ last.req.header.scheme = "Bearer"

Authenticated == last.op \in ProtectedOps /\ last.user # None

Issued == last.op \in {"login", "refresh"} /\ last.resp.status = 200

\* C1: JWT_SECRET is mandatory: a process that serves has it, so whenever the gate
\* verifies a bearer token it does so under the configured secret, never under a
\* fallback key.
C1_SecretMandatory ==
    GateVerified =>
        /\ EnvVar("JWT_SECRET") # None
        /\ GateSecret # FallbackSecret

\* C2: a token the gate accepts was signed with the configured signing secret.
C2_OnlyConfiguredKey ==
    Authenticated =>
        \E k \in EnvVar("JWT_SECRET") :
            last.req.header.token.sig = HmacSha256(k, last.req.header.token.claims)

\* C3: refresh succeeds exactly when a refresh_tokens row with the token exists and
\* its expires_at is strictly after now; with no such row (not found) and with
\* expires_at <= now (expired) it answers 401; on success the access token's subject
\* and the username returned are those of the user who owns the row.
C3_RefreshOutcome ==
    (last.op = "refresh" /\ last.req.body.json_ok) =>
        LET rows == {r \in refresh_tokens : r.token = last.req.body.value.refresh_token}
            live == {r \in rows : r.expires_at > now}
        IN  /\ (last.resp.status = 200) <=> (live # {})
            /\ rows = {} => last.resp.status = 401
            /\ (rows # {} /\ \A r \in rows : r.expires_at <= now) => last.resp.status = 401
            /\ last.resp.status = 200 =>
                   \E r \in live : \E u \in users :
                       /\ u.id = r.user_id
                       /\ last.resp.body.username = u.username
                       /\ last.resp.body.token.claims.sub = u.id
                       /\ last.resp.body.token.claims.username = u.username

\* C3 witness: a refresh token was redeemed, and the store also holds an expired one
C3_Witness ==
    /\ last.op = "refresh"
    /\ last.resp.status = 200
    /\ \E r \in refresh_tokens : r.expires_at <= now

\* The bearer token of the last request verifies at this instant
Verifies(tok) ==
    /\ tok.wf
    /\ tok.alg = "HS256"
    /\ tok.sig = HmacSha256(GateSecret, tok.claims)
    /\ tok.claims.exp >= now - Leeway

\* C5 (as stated): the gate rejects every token whose exp is at or before now minus
\* the leeway, so a token whose exp is in the past never yields an identity.
C5_PastExpNeverAccepted ==
    Authenticated =>
        /\ ~(last.req.header.token.claims.exp <= now - Leeway)
        /\ last.req.header.token.claims.exp >= now

\* C5 (amended): an issued token has exp = issuance time + 15 minutes, strictly in
\* the future; the gate rejects every token whose exp is strictly before now minus
\* the 60-second leeway, so a token whose exp is more than 60 seconds in the past
\* never yields an identity.
C5_ExpiryEnforced ==
    /\ Issued =>
           /\ last.resp.body.token.claims.exp = now + AccessTtl
           /\ last.resp.body.token.claims.exp > now
    /\ (GateVerified /\ last.req.header.token.claims.exp < now - Leeway) =>
           /\ last.user = None
           /\ last.resp.status = 401

\* C5 witness: a token signed with the configured secret is refused for its age
C5_Witness ==
    /\ GateVerified
    /\ last.req.header.token.sig =
           HmacSha256(ConfiguredSecret, last.req.header.token.claims)
    /\ last.req.header.token.claims.exp < now - Leeway
    /\ last.resp.status = 401

\* C6 (as stated): the failure of a bearer token tells its cause, Invalid or
\* Expired: the answer to an expired token differs from the answer to a token
\* that is not valid.
C6_FailureTellsCause ==
    (/\ GateVerified
     /\ last.req.header.token.sig =
            HmacSha256(ConfiguredSecret, last.req.header.token.claims)
     /\ last.req.header.token.claims.exp < now - Leeway) =>
        last.resp # Respond(from_request_parts(Bearer(Garbage), now))

\* C6 (amended): the gate's outcome is a total function of the request: no Bearer
\* header gives 401 "token missing or malformed"; a bearer token that fails
\* verification gives the one 401 "token expired or invalid", whatever the cause;
\* otherwise the identity is {id = Claims.sub, username = Claims.username}.  No
\* gate failure is a 500.
C6_GateTotal ==
    last.op \in ProtectedOps =>
        LET h == last.req.header
        IN  /\ h.scheme # "Bearer" =>
                   /\ last.user = None
                   /\ last.resp = [status |-> 401,
                                   body |-> ErrorBody("token missing or malformed", None)]
            /\ (h.scheme = "Bearer" /\ ~Verifies(h.token)) =>
                   /\ last.user = None
                   /\ last.resp = [status |-> 401,
                                   body |-> ErrorBody("token expired or invalid", None)]
            /\ (h.scheme = "Bearer" /\ Verifies(h.token)) =>
                   last.user = Some([id |-> h.token.claims.sub,
                                     username |-> h.token.claims.username])
            /\ last.user = None => last.resp.status = 401

\* C6 witness: a well-formed token whose signature does not match is refused
C6_Witness ==
    /\ GateVerified
    /\ last.req.header.token.wf
    /\ last.req.header.token.sig # HmacSha256(GateSecret, last.req.header.token.claims)
    /\ last.resp.status = 401

\* C8: login succeeds only for a known username whose stored hash the password
\* verifies against; for an unknown username or a wrong password it answers 401
\* with no token, and it inserts no refresh_tokens row.
C8_LoginOutcome ==
    (last.op = "login" /\ last.req.body.json_ok) =>
        LET known == {u \in users : u.username = last.req.body.value.username}
            matching == {u \in known : u.password_hash.digest =
                            Argon2(last.req.body.value.password, u.password_hash.salt)}
        IN  /\ last.resp.status = 200 => matching # {}
            /\ matching = {} =>
                   last.resp = [status |-> 401,
                                body |-> ErrorBody("wrong username or password", None)]

C8_NoRowOnFailure ==
    (last'.op = "login" /\ last'.resp.status # 200) => refresh_tokens' = refresh_tokens

C8_Login == []C8_LoginOutcome /\ [][C8_NoRowOnFailure]_vars

\* C8 witness: a registered user was refused for a wrong password
C8_Witness ==
    /\ last.op = "login"
    /\ last.resp.status = 401
    /\ \E u \in users : u.username = last.req.body.value.username

\* C9: the access token a successful login returns carries the id and the name of
\* the user who logged in, and its refresh token is stored for that user; the
\* access token a refresh of that refresh token returns, presented to the gate at
\* once, is accepted and yields the same id and username.
C9_SessionContinuity ==
    /\ (last.op = "login" /\ last.resp.status = 200) =>
           \E u \in users :
               /\ u.username = last.req.body.value.username
               /\ last.resp.body.token.claims.sub = u.id
               /\ last.resp.body.token.claims.username = u.username
               /\ \E r \in refresh_tokens :
                      /\ r.user_id = u.id
                      /\ last.resp.body.refresh_token = Some(r.token)
    /\ (last.op = "refresh" /\ last.req.body.json_ok) =>
           \A r \in refresh_tokens : \A u \in users :
               (/\ r.token = last.req.body.value.refresh_token
                /\ r.user_id = u.id
                /\ r.expires_at > now) =>
                   /\ last.resp.status = 200
                   /\ from_request_parts(Bearer(last.resp.body.token), now) =
                          Ok([id |-> u.id, username |-> u.username])

\* C9 witness: the gate accepted, for a registered user, a token issued at this
\* instant while every login is older: the token came from a refresh
C9_Witness ==
    /\ last.op = "get_projects"
    /\ last.resp.status = 200
    /\ last.req.header.token.claims.exp = now + AccessTtl
    /\ \E u \in users : last.user = Some([id |-> u.id, username |-> u.username])
    /\ \A r \in refresh_tokens : r.expires_at < now + RefreshTtl

\* C10: a successful login adds exactly one refresh_tokens row, owned by the user
\* who logged in and expiring strictly after now, under a token no row had; no step
\* removes or changes a row, so a row stays redeemable until it expires.
C10_LoginAddsOneRow ==
    (last'.op = "login" /\ last'.resp.status = 200) =>
        \E u \in users : \E r \in refresh_tokens' :
            /\ u.username = last'.req.body.value.username
            /\ r.user_id = u.id
            /\ r.expires_at > now
            /\ last'.resp.body.refresh_token = Some(r.token)
            /\ \A old \in refresh_tokens : old.token # r.token
            /\ refresh_tokens' = refresh_tokens \cup {r}

C10_RowsKept == refresh_tokens \subseteq refresh_tokens'

C10_StillRedeemable ==
    \A r \in refresh_tokens :
        r.expires_at > now =>
            \E u \in users :
                find_refresh_token(r.token, now) =
                    Some([user_id |-> u.id, username |-> u.username])

C10_MultiSession ==
    /\ [][C10_LoginAddsOneRow /\ C10_RowsKept]_vars
    /\ []C10_StillRedeemable

\* C10 witness: a user logged in again and holds two unexpired refresh tokens
C10_Witness ==
    /\ last.op = "login"
    /\ last.resp.status = 200
    /\ \E r1, r2 \in refresh_tokens :
           /\ r1.token # r2.token
           /\ r1.user_id = r2.user_id
           /\ r1.expires_at > now
           /\ r2.expires_at > now
           /\ r1.expires_at # r2.expires_at

\* C4: refresh is static: no step of a refresh request changes a refresh_tokens row,
\* the response carries the refresh token that was sent, a query made while the row
\* is unexpired finds its owner, and every request that found the row is answered
\* 200 with the owner's identity, so redeemers of one token, in sequence or
\* interleaved, succeed with the same identity.
C4_RowsUntouched == inflight' # inflight => refresh_tokens' = refresh_tokens

C4_QueryFindsOwner ==
    \A c \in Clients :
        (inflight[c].pc = "idle" /\ inflight'[c].pc = "queried") =>
            \A r \in refresh_tokens : \A u \in users :
                (/\ r.token = inflight'[c].token
                 /\ r.user_id = u.id
                 /\ r.expires_at > now) =>
                    inflight'[c].row = Some([user_id |-> u.id, username |-> u.username])

C4_FoundIsAnswered ==
    \A c \in Clients :
        (inflight[c].pc = "done" /\ inflight[c].row # None) =>
            /\ inflight[c].resp.status = 200
            /\ inflight[c].resp.body.refresh_token = Some(inflight[c].token)
            /\ \E r \in refresh_tokens : \E u \in users :
                   /\ r.token = inflight[c].token
                   /\ r.user_id = u.id
                   /\ inflight[c].resp.body.username = u.username
                   /\ inflight[c].resp.body.token.claims.sub = u.id
                   /\ inflight[c].resp.body.token.claims.username = u.username

C4_SameIdentity ==
    \A c1, c2 \in Clients :
        (/\ inflight[c1].pc = "done" /\ inflight[c1].row # None
         /\ inflight[c2].pc = "done" /\ inflight[c2].row # None
         /\ inflight[c1].token = inflight[c2].token) =>
            /\ inflight[c1].resp.status = inflight[c2].resp.status
            /\ inflight[c1].resp.body.username = inflight[c2].resp.body.username
            /\ inflight[c1].resp.body.token.claims.sub =
                   inflight[c2].resp.body.token.claims.sub

C4_StaticRefresh ==
    /\ [][C4_RowsUntouched /\ C4_QueryFindsOwner]_vars
    /\ [](C4_FoundIsAnswered /\ C4_SameIdentity)

\* C4 witness: two clients redeemed one token, their requests overlapping in time:
\* both are answered 200 with access tokens issued at different instants
C4_Witness ==
    \E c1, c2 \in Clients :
        /\ c1 # c2
        /\ inflight[c1].pc = "done" /\ inflight[c1].resp.status = 200
        /\ inflight[c2].pc = "done" /\ inflight[c2].resp.status = 200
        /\ inflight[c1].token = inflight[c2].token
        /\ inflight[c1].resp.body.token.claims.exp # inflight[c2].resp.body.token.claims.exp

\* C7: every protected operation (the project, issue, comment and search routes) runs
\* the gate before anything of its own: a protected request whose gate fails is
\* answered with the gate's 401 and leaves users, refresh_tokens, projects, issues and
\* comments as they were, also when its body does not parse or does not validate.
GateFails(header) == ~from_request_parts(header, now).ok

C7_RejectedByGate ==
    (last.op \in ProtectedOps /\ GateFails(last.req.header)) =>
        /\ last.user = None
        /\ last.resp = Respond(from_request_parts(last.req.header, now))
        /\ last.resp.status = 401

C7_StoreKept ==
    (last = NoRequest /\ last'.op \in ProtectedOps /\ GateFails(last'.req.header)) =>
        /\ store' = store
        /\ seq' = seq
        /\ last'.resp.status = 401

C7_GateFirst == []C7_RejectedByGate /\ [][C7_StoreKept]_vars

InvalidBody(op, body) ==
    \/ ~body.json_ok
    \/ op = "create_project" /\ validate_CreateProjectSchema(body.value) # {}
    \/ op = "create_issue" /\ validate_CreateIssueSchema(body.value) # {}
    \/ op = "update_issue" /\ validate_UpdateIssueSchema(body.value) # {}
    \/ op = "create_comment" /\ validate_CreateCommentSchema(body.value) # {}

\* A rejected create_issue whose body is invalid too, sent with a tampered token while
\* the store holds a project
C7_Witness ==
    /\ last.op = "create_issue"
    /\ last.req.header.scheme = "Bearer"
    /\ GateFails(last.req.header)
    /\ last.req.body.json_ok
    /\ InvalidBody(last.op, last.req.body)
    /\ last.resp.status = 401
    /\ projects # {}

\* C11: every failure of register, login, refresh and the gate reaches the client as a
\* typed error, an AppError rendered by into_response (or, for a refresh body that does
\* not parse, the rejection of the Json extractor); none is a panic, a missing
\* JWT_SECRET at token issuance included.
TypedErrorResponse(resp) ==
    /\ resp.status \in {400, 401, 403, 404, 409, 500}
    /\ DOMAIN resp.body = DOMAIN ErrorBody("", None)
    /\ resp.body.status = "error"

AuthFailed ==
    \/ last.op \in {"register", "login", "refresh"} /\ last.resp.status # 200
    \/ last.op \in ProtectedOps /\ last.user = None

C11_FailuresAreTyped ==
    AuthFailed =>
        /\ last.resp # Panicked
        /\ TypedErrorResponse(last.resp) \/ last.resp = JsonRejection

\* C12: each kind of error has one status and the body {status: "error", message,
\* errors}: Auth 401, NotFound 404, Forbidden 403, BadRequest and field validation 400,
\* Internal 500, a database failure 500 with a generic message, except a uniqueness
\* violation, which is 409 (a register of a taken username); errors is filled for field
\* validation only.
AppErrors ==
    {AppErrorAuth(m) : m \in {"token missing or malformed", "token expired or invalid",
                              "wrong username or password"}}
    \cup {AppErrorNotFound(m) : m \in {"project not found", "issue not found"}}
    \cup {AppErrorForbidden("no access to this project"),
          AppErrorBadRequest("target project does not exist"),
          AppErrorBadRequest("failed to parse the request body as JSON"),
          AppErrorInternal}
    \cup {AppErrorValidation(violations) :
             violations \in {validate_RegisterSchema([username |-> u, password |-> pw]) :
                                u \in Usernames, pw \in Passwords} \ {{}}}
    \cup {AppErrorDatabase(d) : d \in {UniqueViolation, ForeignKeyViolation, RowNotFound}}

ClaimedStatus(e) ==
    CASE e.kind = "Auth" -> 401
      [] e.kind = "NotFound" -> 404
      [] e.kind = "Forbidden" -> 403
      [] e.kind \in {"BadRequest", "ValidationError"} -> 400
      [] e.kind = "Internal" -> 500
      [] e.kind = "Database" -> IF e.source.code = "23505" THEN 409 ELSE 500

GenericMessages == {"record already exists", "database operation failed"}

C12_KindToStatus ==
    \A e \in AppErrors :
        LET r == into_response(e)
        IN  /\ r.status = ClaimedStatus(e)
            /\ r.body.status = "error"
            /\ (r.body.errors # None) <=> (e.kind = "ValidationError")
            /\ e.kind = "Database" => r.body.message \in GenericMessages

C12_ResponseShape ==
    (last.op # "none" /\ last.resp.status \notin {0, 200, 204}) =>
        /\ last.resp.status \in {400, 401, 403, 404, 409, 500}
        /\ last.resp.body.status = "error"
        /\ last.resp.body.errors # None => last.resp.status = 400
        /\ last.resp.status = 409 => last.op = "register"

C12_RegisterConflict ==
    (/\ last = NoRequest
     /\ last'.op = "register"
     /\ last'.req.body.json_ok
     /\ validate_RegisterSchema(last'.req.body.value) = {}
     /\ username_taken(last'.req.body.value.username)) =>
        /\ last'.resp = [status |-> 409, body |-> ErrorBody("record already exists", None)]
        /\ users' = users

C12_ErrorTaxonomy ==
    /\ [](C12_KindToStatus /\ C12_ResponseShape)
    /\ [][C12_RegisterConflict]_vars

\* A register of a name that is taken answered 409, and a rejected body answered 400
\* with its field errors, both seen
C12_Witness ==
    /\ last.op = "register"
    /\ last.resp.status = 409
    /\ last.resp.body.errors = None
    /\ username_taken(last.req.body.value.username)
    /\ projects # {}

\* C13: an operation of an authenticated user U reads, updates and deletes only
\* projects, issues and comments of U's own projects, and creates an issue or a comment
\* only under a project or issue that U owns: a create_comment of U on an issue of
\* another user's project adds no comment row.
OwnsIssue(uid, i, among) ==
    \/ i.user_id = uid
    \/ \E p \in among : p.id = i.project_id /\ p.user_id = uid

\* c hangs on no issue of somebody else
OwnsComment(uid, c, under, among) ==
    \A i \in under : i.id = c.issue_id => OwnsIssue(uid, i, among)

Changed(before, after) == (before \ after) \cup (after \ before)

WritesOwn(uid) ==
    /\ \A p \in Changed(projects, projects') : p.user_id = uid
    /\ \A i \in Changed(issues, issues') : OwnsIssue(uid, i, projects \cup projects')
    /\ \A c \in Changed(comments, comments') :
          OwnsComment(uid, c, issues \cup issues', projects \cup projects')

ReadsOwn(uid, op, found) ==
    CASE op = "get_projects" -> \A p \in found : p.user_id = uid
      [] op \in {"get_all_my_issues", "get_project_issues"} ->
           \A i \in found : OwnsIssue(uid, i, projects)
      [] op = "get_issue_comments" ->
           \A c \in found : \E i \in issues : i.id = c.issue_id /\ OwnsIssue(uid, i, projects)
      [] op = "unified_search" ->
           \A r \in found :
              \/ r.type = "project" /\ \E p \in projects : p.id = r.id /\ p.user_id = uid
              \/ r.type = "issue" /\ \E i \in issues : i.id = r.id /\ OwnsIssue(uid, i, projects)
      [] OTHER -> TRUE

C13_StepIsolated ==
    (last = NoRequest /\ last'.op \in ProtectedOps /\ last'.user # None) =>
        /\ WritesOwn(Unwrap(last'.user).id)
        /\ last'.resp.status = 200 =>
              ReadsOwn(Unwrap(last'.user).id, last'.op, last'.resp.body)

C13_OwnershipIsolation == [][C13_StepIsolated]_vars

====
